---- MODULE Spec2Model ----
(***************************************************************************)
(* AppUsageTracker of SOT.py: the sampling loop (track_usage), the         *)
(* persistence of the usage table (load_data, save_data), delete_date and  *)
(* get_summary.                                                            *)
(*                                                                         *)
(* Time is an integer number of seconds.  A calendar day is DayLen seconds *)
(* long (a scale of the model: the real day has 86400), and a date string  *)
(* 'YYYY-MM-DD' is modelled by its day number.                             *)
(***************************************************************************)
EXTENDS Integers, Sequences, FiniteSets, TLC

\* ------------------------------------------------------------------ bounds
DayLen == 11           \* seconds in one calendar day (scale of the model)
MaxClock == 15         \* the clock of a session stays within 0..MaxClock
MaxSecs == 15          \* cap on the magnitude of a stored seconds value
MaxSessions == 2       \* cap on the number of sampling sessions started
MaxSetBacks == 1       \* cap on the number of times the clock is set back
TickStep == 5           \* the clock moves in steps of TickStep seconds

\* ------------------------------------------------------------ program data
RetentionDays == 7     \* timedelta(days=7) of load_data, `.days <= 7` of save_data

None == "None"         \* Python's None, the initial last_app
FocusResults == {"A", "B"}   \* identifiers get_active_window_process returns

Days == 0 .. (MaxClock \div DayLen)

VARIABLES
    usage_data,   \* self.usage_data: date -> insertion-ordered <<[app, secs]>>
    last_app,     \* self.last_app
    last_time,    \* self.last_time
    running,      \* self.running (the sampling thread is alive iff running)
    file,         \* the durable file data_file
    clock,        \* time.time() / datetime.now()
    last,         \* history: the last operation, its argument and its result
    credited,     \* history: sum of all amounts credited by ticks and flushes
    firstTick,    \* history: clock reading of the first tick
    lastCredit,   \* history: clock reading of the last tick or close-out flush
    sessions,     \* history: number of sessions started
    proc,         \* the process: "none" (not started, exited or killed), "up"
                  \* (AppUsageTracker() returned), "failed" (it raised)
    savepc,       \* position inside save_data: "idle", or "opened" between
                  \* open(data_file, 'w') and the end of json.dump
    durable,      \* history: the file as it was when the save in progress began
    setbacks,     \* history: number of times the clock was set back
    threads,      \* the sampling threads ever started, in order; the last one
                  \* is self.track_thread.  Each is [pc, app, now, date, key,
                  \* old, diff]: pc "head" (at the while test or asleep), "mid"
                  \* (inside the += of line 101, the old value read and the
                  \* new one not yet stored) or "done" (track_usage returned)
    call,         \* the caller context inside a handler taken step by step:
                  \* its position pc, its local values, and ret, the result of
                  \* the last get_summary it completed
    fresh         \* history: [pending, at], pending from a start_tracking
                  \* that starts a thread, at clock reading at, until that
                  \* thread completes the first iteration of its loop

conc == <<threads, call, fresh>>

vars == <<usage_data, last_app, last_time, running, file, clock,
          last, credited, firstTick, lastCredit, sessions, proc, savepc,
          durable, setbacks, threads, call, fresh>>

\* ------------------------------------------------------- the usage table
EmptyTable == [d \in {} |-> <<>>]

\* position of app a in a day's insertion-ordered entries, 0 when absent
RECURSIVE IndexOf(_, _)
IndexOf(apps, a) ==
    IF apps = <<>> THEN 0
    ELSE IF apps[Len(apps)].app = a /\ IndexOf(SubSeq(apps, 1, Len(apps) - 1), a) = 0
         THEN Len(apps)
         ELSE IndexOf(SubSeq(apps, 1, Len(apps) - 1), a)

\* apps[a] += x on a defaultdict(float): a missing key starts at 0.0 and is
\* appended; an existing key keeps its position
AddSecs(apps, a, x) ==
    IF IndexOf(apps, a) = 0
    THEN Append(apps, [app |-> a, secs |-> x])
    ELSE [apps EXCEPT ![IndexOf(apps, a)].secs = @ + x]

\* the day's entries, without creating the day (usage_data.get(date, {}))
AppsOf(ud, d) == IF d \in DOMAIN ud THEN ud[d] ELSE <<>>

\* stored seconds of (d, a), 0 when there is no such entry
SecsOf(ud, d, a) ==
    IF IndexOf(AppsOf(ud, d), a) = 0 THEN 0
    ELSE AppsOf(ud, d)[IndexOf(AppsOf(ud, d), a)].secs

\* self.usage_data[d][a] += x
Credit(ud, d, a, x) ==
    [dd \in DOMAIN ud \cup {d} |->
        IF dd = d THEN AddSecs(AppsOf(ud, d), a, x) ELSE ud[dd]]

\* self.usage_data[d]: reading a missing day of the defaultdict creates it
Touch(ud, d) ==
    [dd \in DOMAIN ud \cup {d} |-> IF dd = d THEN AppsOf(ud, d) ELSE ud[dd]]

\* del self.usage_data[d]
Remove(ud, d) == [dd \in DOMAIN ud \ {d} |-> ud[dd]]

\* datetime.now().strftime('%Y-%m-%d')
DateOf(t) == t \div DayLen

\* datetime.strptime(date, '%Y-%m-%d'): midnight of the day
Midnight(d) == d * DayLen

\* ---------------------------------------------------------- the durable file
\* A file is [kind, items].  kind is "missing" (no such path), "unreadable"
\* (open raises IOError), "malformed" (json.load raises JSONDecodeError: an
\* empty or truncated file, any text that is not JSON), "notobject" (valid
\* JSON whose top level is not an object) or "object"; items is the parsed
\* object as its <<[key, val]>> pairs in file order.  A key is
\* [fmt |-> "date", day |-> d] or [fmt |-> "bad", day |-> 0] (strptime rejects
\* it); a val is [shape |-> "map", apps |-> <<[app, secs]>>], or shape
\* "number" / "string" with apps <<>> (a day's value that is no mapping).
NoFile == [kind |-> "missing", items |-> <<>>]
DateKey(d) == [fmt |-> "date", day |-> d]
MapVal(apps) == [shape |-> "map", apps |-> apps]

\* apps[a] = v of dict.update: an existing key keeps its position
SetSecs(apps, a, v) ==
    IF IndexOf(apps, a) = 0
    THEN Append(apps, [app |-> a, secs |-> v])
    ELSE [apps EXCEPT ![IndexOf(apps, a)].secs = v]

\* self.usage_data[date].update(apps) for a mapping apps
RECURSIVE Update(_, _)
Update(apps, new) ==
    IF new = <<>> THEN apps
    ELSE Update(SetSecs(apps, new[1].app, new[1].secs), Tail(new))

\* datetime.now() - date_obj <= timedelta(days=7)
LoadKeeps(d, now) == now - Midnight(d) <= RetentionDays * DayLen

\* the for loop of load_data over data.items(), from table ud on.  The result
\* is [ud, exc]: exc is "none", "ValueError" (caught by the except clause) or
\* "TypeError" (not caught: it leaves load_data and __init__)
RECURSIVE LoadItems(_, _, _)
LoadItems(items, ud, now) ==
    IF items = <<>> THEN [ud |-> ud, exc |-> "none"]
    ELSE LET key == items[1].key
             val == items[1].val
         IN IF key.fmt = "date" /\ key.day \in DOMAIN ud
            THEN LoadItems(Tail(items), ud, now)
            ELSE IF key.fmt = "bad"
            THEN [ud |-> ud, exc |-> "ValueError"]
            ELSE IF ~LoadKeeps(key.day, now)
            THEN LoadItems(Tail(items), ud, now)
            ELSE IF val.shape = "map"
            THEN LoadItems(Tail(items),
                           [dd \in DOMAIN ud \cup {key.day} |->
                               IF dd = key.day
                               THEN Update(AppsOf(ud, key.day), val.apps)
                               ELSE ud[dd]],
                           now)
            ELSE IF val.shape = "string"
            THEN [ud |-> Touch(ud, key.day), exc |-> "ValueError"]
            ELSE [ud |-> Touch(ud, key.day), exc |-> "TypeError"]

\* load_data on an empty table: [ud, exc], exc "AttributeError" when
\* data.items() does not exist
load_data(f, now) ==
    IF f.kind \in {"missing", "unreadable", "malformed"}
    THEN [ud |-> EmptyTable, exc |-> "none"]
    ELSE IF f.kind = "notobject"
    THEN [ud |-> EmptyTable, exc |-> "AttributeError"]
    ELSE LoadItems(f.items, EmptyTable, now)

\* a save that drops the days that are RetentionDays whole days old
SaveKeeps_Strict(d, now) == (now - Midnight(d)) \div DayLen < RetentionDays

\* (current_date_obj - datetime.strptime(date, '%Y-%m-%d')).days <= 7
SaveKeeps(d, now) == (now - Midnight(d)) \div DayLen <= RetentionDays

\* filtered_data of save_data
Filtered(ud, now) ==
    [d \in {dd \in DOMAIN ud : SaveKeeps(dd, now)} |-> ud[d]]

\* json.dump(filtered_data): the days written in ascending order
RECURSIVE Dump(_)
Dump(fd) ==
    IF DOMAIN fd = {} THEN <<>>
    ELSE LET d == CHOOSE x \in DOMAIN fd : \A y \in DOMAIN fd : x <= y
         IN <<[key |-> DateKey(d), val |-> MapVal(fd[d])]>>
            \o Dump([dd \in DOMAIN fd \ {d} |-> fd[dd]])

\* -------------------------------------------------------------- get_summary
RECURSIVE SumSecs(_)
SumSecs(apps) ==
    IF apps = <<>> THEN 0 ELSE apps[1].secs + SumSecs(Tail(apps))

\* a descending sort that puts e in front of the entries that equal it
RECURSIVE InsertDesc_TiesFirst(_, _)
InsertDesc_TiesFirst(sorted, e) ==
    IF sorted = <<>> THEN <<e>>
    ELSE IF sorted[1].secs > e.secs
         THEN <<sorted[1]>> \o InsertDesc_TiesFirst(Tail(sorted), e)
         ELSE <<e>> \o sorted

\* one step of the stable descending sort: e goes behind every entry whose
\* seconds are at least its own
RECURSIVE InsertDesc(_, _)
InsertDesc(sorted, e) ==
    IF sorted = <<>> THEN <<e>>
    ELSE IF sorted[1].secs >= e.secs
         THEN <<sorted[1]>> \o InsertDesc(Tail(sorted), e)
         ELSE <<e>> \o sorted

\* sorted(apps.items(), key=lambda x: x[1], reverse=True)
RECURSIVE SortedApps(_)
SortedApps(apps) ==
    IF apps = <<>> THEN <<>>
    ELSE InsertDesc(SortedApps(SubSeq(apps, 1, Len(apps) - 1)), apps[Len(apps)])

\* a total that is taken as it is, zero included
TotalTime_NoFloor(apps) == SumSecs(apps)

\* line 148: sum(apps.values()) or 1
TotalTime(apps) == IF SumSecs(apps) = 0 THEN 1 ELSE SumSecs(apps)

\* get_summary(date) for a given date: (sorted_apps, total_time)
get_summary(ud, d) ==
    [sorted_apps |-> SortedApps(AppsOf(ud, d)),
     total_time  |-> TotalTime(AppsOf(ud, d))]

\* ------------------------------------------------------------------ save_data
\* `if self.last_app:` is false for None and for the empty string
Truthy(a) == a # None /\ a # ""

\* lines 121-123: the close-out flush, which leaves last_time as it is
FlushAmount == IF Truthy(last_app) THEN clock - last_time ELSE 0
Flush(ud) ==
    IF Truthy(last_app)
    THEN Credit(ud, DateOf(clock), last_app, clock - last_time)
    ELSE ud

\* lines 124-130.  io is what the file system does: "ok"; "openfail" (open
\* raises, the file is untouched); "writefail" (the file was truncated by
\* open(..., 'w') and the dump did not complete)
Written(ud, io) ==
    IF io = "ok" THEN [kind |-> "object", items |-> Dump(Filtered(ud, clock))]
    ELSE IF io = "writefail" THEN [kind |-> "malformed", items |-> <<>>]
    ELSE file

IOResults == {"ok", "openfail", "writefail"}

\* every stored value, and the amount credited so far, within the cap of the
\* model
InRange(ud, total) ==
    /\ \A d \in DOMAIN ud : \A i \in 1 .. Len(ud[d]) :
          ud[d][i].secs >= -MaxSecs /\ ud[d][i].secs <= MaxSecs
    /\ total >= -MaxSecs /\ total <= MaxSecs

\* the result (sorted_apps, total_time) of get_summary; before any call, none
NoSummary == [sorted_apps |-> <<>>, total_time |-> 1]

\* the caller context outside every handler, its last summary being ret
IdleCall(ret) ==
    [pc |-> "idle", date |-> 0, key |-> None, old |-> 0, total |-> 0,
     now |-> 0, iter |-> {}, ret |-> ret]

\* no session is waiting for its first tick
NoFresh == [pending |-> FALSE, at |-> 0]

\* a sampling thread outside the += of line 101
ThreadAt(pc) ==
    [pc |-> pc, app |-> None, now |-> 0, date |-> 0, key |-> None,
     old |-> 0, diff |-> 0]

Op(name, d, ok) == [op |-> name, date |-> d, ok |-> ok, at |-> clock]

\* --------------------------------------------------------------- the actions
\* a tick that credits the application it has just observed
TickCredit_ToCurrent(ud, app) ==
    IF last_app # None
    THEN Credit(ud, DateOf(clock), app, clock - last_time)
    ELSE ud

\* a tick that credits the day on which the interval began
TickCredit_ToStartDay(ud, app) ==
    IF last_app # None
    THEN Credit(ud, DateOf(last_time), last_app, clock - last_time)
    ELSE ud

\* lines 99-101: the credit of one iteration of track_usage whose probe
\* returned app (the credit does not depend on it)
TickCredit(ud, app) ==
    IF last_app # None
    THEN Credit(ud, DateOf(clock), last_app, clock - last_time)
    ELSE ud

TickAmount == IF last_app # None THEN clock - last_time ELSE 0

\* one iteration of the loop of track_usage with the probe returning app; the
\* loop runs on its own thread, whatever the caller is doing
Tick(app) ==
    /\ proc = "up"
    /\ running
    /\ InRange(TickCredit(usage_data, app), credited + TickAmount)
    /\ usage_data' = TickCredit(usage_data, app)
    /\ last_app' = app
    /\ last_time' = clock
    /\ credited' = credited + TickAmount
    /\ firstTick' = IF last_app = None THEN clock ELSE firstTick
    /\ lastCredit' = clock
    /\ last' = Op("tick", DateOf(clock), TRUE)
    /\ UNCHANGED <<running, file, clock, sessions, proc, savepc, durable, setbacks, conc>>

start_tracking ==
    /\ proc = "up" /\ savepc = "idle"
    /\ running \/ sessions < MaxSessions
    /\ running' = TRUE
    /\ sessions' = IF running THEN sessions ELSE sessions + 1
    /\ last' = Op("start_tracking", 0, TRUE)
    /\ UNCHANGED <<usage_data, last_app, last_time, file, clock,
                   credited, firstTick, lastCredit, proc, savepc, durable, setbacks, conc>>

\* what save_data does to the table, the file and the history
SaveEffect(ud, io) ==
    /\ InRange(Flush(ud), credited + FlushAmount)
    /\ usage_data' = Flush(ud)
    /\ file' = Written(Flush(ud), io)
    /\ credited' = credited + FlushAmount
    /\ lastCredit' = IF Truthy(last_app) THEN clock ELSE lastCredit

save_data(io) ==
    /\ proc = "up" /\ savepc = "idle"
    /\ SaveEffect(usage_data, io)
    /\ last' = Op("save_data", 0, io = "ok")
    /\ UNCHANGED <<last_app, last_time, running, clock, firstTick,
                   sessions, proc, savepc, durable, setbacks, conc>>

\* stop_tracking: the loop ends, the thread is joined, then save_data
stop_tracking(io) ==
    /\ proc = "up" /\ savepc = "idle"
    /\ running' = FALSE
    /\ SaveEffect(usage_data, io)
    /\ last' = Op("stop_tracking", 0, TRUE)
    /\ UNCHANGED <<last_app, last_time, clock, firstTick, sessions,
                   proc, savepc, durable, setbacks, conc>>

\* a delete_date that saves whether or not the date was there
delete_date_AlwaysSaves(d, io) ==
    /\ proc = "up" /\ savepc = "idle"
    /\ SaveEffect(Remove(usage_data, d), io)
    /\ last' = Op("delete_date", d, d \in DOMAIN usage_data)
    /\ UNCHANGED <<last_app, last_time, running, clock, firstTick,
                   sessions, proc, savepc, durable, setbacks, conc>>

delete_date(d, io) ==
    /\ proc = "up" /\ savepc = "idle"
    /\ \/ /\ d \in DOMAIN usage_data
          /\ SaveEffect(Remove(usage_data, d), io)
          /\ last' = Op("delete_date", d, TRUE)
          /\ UNCHANGED <<last_app, last_time, running, clock, firstTick,
                         sessions, proc, savepc, durable, setbacks, conc>>
       \/ /\ d \notin DOMAIN usage_data
          /\ last' = Op("delete_date", d, FALSE)
          /\ UNCHANGED <<usage_data, last_app, last_time, running, file, clock,
                         credited, firstTick, lastCredit, sessions,
                         proc, savepc, durable, setbacks, conc>>

\* get_summary(date) with a date, and get_summary() which reads
\* self.usage_data[current_date] and so creates the current day
get_summary_of(d) ==
    /\ proc = "up" /\ savepc = "idle"
    /\ last' = Op("get_summary", d, TRUE)
    /\ UNCHANGED <<usage_data, last_app, last_time, running, file, clock,
                   credited, firstTick, lastCredit, sessions,
                   proc, savepc, durable, setbacks, conc>>

get_summary_today ==
    /\ proc = "up" /\ savepc = "idle"
    /\ usage_data' = Touch(usage_data, DateOf(clock))
    /\ last' = Op("get_summary_today", DateOf(clock), TRUE)
    /\ UNCHANGED <<last_app, last_time, running, file, clock,
                   credited, firstTick, lastCredit, sessions,
                   proc, savepc, durable, setbacks, conc>>

\* the wall clock moves forward between two steps of the program
Advance(step) ==
    /\ clock + step <= MaxClock
    /\ clock' = clock + step
    /\ UNCHANGED <<usage_data, last_app, last_time, running, file, last,
                   credited, firstTick, lastCredit, sessions,
                   proc, savepc, durable, setbacks, conc>>

\* the wall clock is set back (time.time() is not monotonic)
ClockBack(step) ==
    /\ clock - step >= 0
    /\ setbacks < MaxSetBacks
    /\ clock' = clock - step
    /\ setbacks' = setbacks + 1
    /\ UNCHANGED <<usage_data, last_app, last_time, running, file, last,
                   credited, firstTick, lastCredit, sessions,
                   proc, savepc, durable, conc>>

ClockSteps == {TickStep}

\* the state after AppUsageTracker() with no data file, at time 0
Init ==
    /\ usage_data = EmptyTable
    /\ last_app = None
    /\ last_time = 0
    /\ running = FALSE
    /\ file = NoFile
    /\ clock = 0
    /\ last = [op |-> "init", date |-> 0, ok |-> TRUE, at |-> 0]
    /\ credited = 0
    /\ firstTick = 0
    /\ lastCredit = 0
    /\ sessions = 0
    /\ proc = "up"
    /\ savepc = "idle"
    /\ durable = NoFile
    /\ setbacks = 0
    /\ threads = <<>>
    /\ call = IdleCall(NoSummary)
    /\ fresh = NoFresh

\* the program under a clock that never steps back
Next ==
    \/ \E app \in FocusResults : Tick(app)
    \/ start_tracking
    \/ stop_tracking("ok")
    \/ save_data("ok")
    \/ \E d \in Days : delete_date(d, "ok")
    \/ \E d \in Days : get_summary_of(d)
    \/ get_summary_today
    \/ \E step \in ClockSteps : Advance(step)

Spec == Init /\ [][Next]_vars

\* the program under a wall clock that may also be set back
NextSkew ==
    \/ \E app \in FocusResults : Tick(app)
    \/ start_tracking
    \/ save_data("ok")
    \/ \E d \in Days : delete_date(d, "ok")
    \/ \E step \in ClockSteps : Advance(step)
    \/ \E step \in ClockSteps : ClockBack(step)

SpecSkew == Init /\ [][NextSkew]_vars

\* ------------------------------------------------- start-up, exit and crash
\* AppUsageTracker(): __init__ (lines 19-31) with its load_data.  An exception
\* that load_data does not catch leaves __init__: no tracker exists.
Construct ==
    /\ proc = "none"
    /\ LET r == load_data(file, clock)
       IN IF r.exc \in {"TypeError", "AttributeError"}
          THEN /\ proc' = "failed"
               /\ usage_data' = EmptyTable
               /\ last' = Op("load", 0, FALSE)
          ELSE /\ proc' = "up"
               /\ usage_data' = r.ud
               /\ last' = Op("load", 0, TRUE)
    /\ last_app' = None
    /\ last_time' = clock
    /\ running' = FALSE
    /\ credited' = 0 /\ firstTick' = 0 /\ lastCredit' = 0 /\ sessions' = 0
    /\ UNCHANGED <<file, clock, savepc, durable, setbacks, conc>>

\* the process ends without a save (it is killed, or it exits after a failed
\* start); what it held in memory is gone.  ok records that no save was
\* under way.
Kill ==
    /\ proc # "none"
    /\ proc' = "none"
    /\ savepc' = "idle"
    /\ usage_data' = EmptyTable
    /\ last_app' = None
    /\ running' = FALSE
    /\ credited' = 0 /\ firstTick' = 0 /\ lastCredit' = 0 /\ sessions' = 0
    /\ last' = Op("kill", 0, savepc = "idle")
    /\ UNCHANGED <<last_time, file, clock, durable, setbacks, conc>>

\* save_data up to and including open(self.data_file, 'w') (lines 121-124):
\* the close-out flush, then the open, which truncates the file
SaveBegin ==
    /\ proc = "up" /\ savepc = "idle"
    /\ InRange(Flush(usage_data), credited + FlushAmount)
    /\ usage_data' = Flush(usage_data)
    /\ credited' = credited + FlushAmount
    /\ lastCredit' = IF Truthy(last_app) THEN clock ELSE lastCredit
    /\ durable' = file
    /\ file' = [kind |-> "malformed", items |-> <<>>]
    /\ savepc' = "opened"
    /\ last' = Op("save_begin", 0, TRUE)
    /\ UNCHANGED <<last_app, last_time, running, clock, firstTick, sessions,
                   proc, setbacks, conc>>

\* the rest of save_data (lines 125-133): the dump completes and True is
\* returned, or it raises and False is returned with the file left truncated
SaveEnd(io) ==
    /\ proc = "up" /\ savepc = "opened"
    /\ file' = IF io = "ok"
               THEN [kind |-> "object", items |-> Dump(Filtered(usage_data, clock))]
               ELSE file
    /\ savepc' = "idle"
    /\ last' = Op("save_data", 0, io = "ok")
    /\ UNCHANGED <<usage_data, last_app, last_time, running, clock, credited,
                   firstTick, lastCredit, sessions, proc, durable, setbacks, conc>>

\* ------------------------------------------------ the files a start-up meets
BadKey == [fmt |-> "bad", day |-> 0]
FileDays == {-(RetentionDays + 1), -RetentionDays, 0}
FileKeys == {DateKey(d) : d \in FileDays} \cup {BadKey}
FileMaps == {<<>>,
             <<[app |-> "A", secs |-> TickStep]>>,
             <<[app |-> "A", secs |-> TickStep], [app |-> "B", secs |-> -TickStep]>>}
FileVals == {MapVal(m) : m \in FileMaps}
               \cup {[shape |-> "number", apps |-> <<>>],
                     [shape |-> "string", apps |-> <<>>]}
FileItems == [key : FileKeys, val : FileVals]

\* objects of at most two members, with distinct keys
FileObjects ==
    {<<>>} \cup {<<i>> : i \in FileItems}
           \cup {p \in FileItems \X FileItems : p[1].key # p[2].key}

InitFiles ==
    {[kind |-> k, items |-> <<>>] :
        k \in {"missing", "unreadable", "malformed", "notobject"}}
    \cup {[kind |-> "object", items |-> o] : o \in FileObjects}

\* before the program starts, with any of the files above on disk
InitLoad ==
    /\ usage_data = EmptyTable
    /\ last_app = None
    /\ last_time = 0
    /\ running = FALSE
    /\ file \in InitFiles
    /\ clock = 0
    /\ last = [op |-> "init", date |-> 0, ok |-> TRUE, at |-> 0]
    /\ credited = 0
    /\ firstTick = 0
    /\ lastCredit = 0
    /\ sessions = 0
    /\ proc = "none"
    /\ savepc = "idle"
    /\ durable = NoFile
    /\ setbacks = 0
    /\ threads = <<>>
    /\ call = IdleCall(NoSummary)
    /\ fresh = NoFresh

\* start-up, saves and restarts over the days, without sampling
NextLoad ==
    \/ Construct
    \/ \E io \in IOResults : save_data(io)
    \/ Kill
    \/ \E step \in {TickStep, DayLen} : Advance(step)

SpecLoad == InitLoad /\ [][NextLoad]_vars

\* a session whose saves can be cut short by a kill or a failed write
NextCrash ==
    \/ \E app \in FocusResults : Tick(app)
    \/ start_tracking
    \/ SaveBegin
    \/ \E io \in {"ok", "writefail"} : SaveEnd(io)
    \/ Kill
    \/ Construct
    \/ \E step \in ClockSteps : Advance(step)

SpecCrash == Init /\ [][NextCrash]_vars

\* ------------------------------ the sampler thread and its caller, by steps
\* The handlers above are taken whole.  Below, the loop of track_usage runs
\* on its thread one step at a time, next to a caller that is itself inside
\* save_data, get_summary or stop_tracking.

\* self.usage_data[d][a] = v, the store that ends a +=
Store(ud, d, a, v) ==
    [dd \in DOMAIN ud \cup {d} |->
        IF dd = d THEN SetSecs(AppsOf(ud, d), a, v) ELSE ud[dd]]

\* open(self.data_file, 'w') has run and nothing has been written yet
Truncated == [kind |-> "malformed", items |-> <<>>]

\* line 94: thread i tests self.running
LoopTest(i) ==
    /\ proc = "up"
    /\ threads[i].pc = "head"
    /\ threads' = [threads EXCEPT ![i] = ThreadAt(IF running THEN "body" ELSE "done")]
    /\ UNCHANGED <<usage_data, last_app, last_time, running, file, clock, last,
                   credited, firstTick, lastCredit, sessions, proc, savepc,
                   durable, setbacks, call, fresh>>

\* lines 95-101 of thread i up to the read of the old value by the +=, the
\* probe returning app.  The read creates the entry when it is missing.  The
\* first iteration (last_app is None) has no += and is over in this step.
\* (`last` stays the last operation of the caller context.)
TickRead(i, app) ==
    /\ proc = "up"
    /\ threads[i].pc = "body"
    /\ IF last_app = None
       THEN /\ last_app' = app
            /\ last_time' = clock
            /\ lastCredit' = clock
            /\ threads' = [threads EXCEPT ![i] = ThreadAt("head")]
            /\ fresh' = NoFresh
            /\ UNCHANGED usage_data
       ELSE /\ usage_data' = Credit(usage_data, DateOf(clock), last_app, 0)
            /\ threads' = [threads EXCEPT ![i] =
                              [pc |-> "mid", app |-> app, now |-> clock,
                               date |-> DateOf(clock), key |-> last_app,
                               old |-> SecsOf(usage_data, DateOf(clock), last_app),
                               diff |-> clock - last_time]]
            /\ UNCHANGED <<last_app, last_time, lastCredit, fresh>>
    /\ UNCHANGED <<running, file, clock, last, credited, firstTick, sessions,
                   proc, savepc, durable, setbacks, call>>

\* the store of the += of line 101, then lines 103-104
TickWrite(i) ==
    /\ proc = "up"
    /\ threads[i].pc = "mid"
    /\ LET t == threads[i]
           ud == Store(usage_data, t.date, t.key, t.old + t.diff)
       IN /\ InRange(ud, credited + t.diff)
          /\ usage_data' = ud
          /\ credited' = credited + t.diff
          /\ last_app' = t.app
          /\ last_time' = t.now
    /\ lastCredit' = clock
    /\ fresh' = NoFresh
    /\ threads' = [threads EXCEPT ![i] = ThreadAt("head")]
    /\ UNCHANGED <<running, file, clock, last, firstTick, sessions, proc,
                   savepc, durable, setbacks, call>>

\* a start_tracking that starts a thread whatever self.running says
ShouldStart_Always == TRUE

\* line 108: if not self.running
ShouldStart == ~running

\* start_tracking, with the thread it starts
StartTracking ==
    /\ proc = "up" /\ call.pc = "idle"
    /\ IF ShouldStart
       THEN /\ sessions < MaxSessions
            /\ running' = TRUE
            /\ threads' = Append(threads, ThreadAt("head"))
            /\ sessions' = sessions + 1
            /\ fresh' = [pending |-> TRUE, at |-> clock]
       ELSE UNCHANGED <<running, threads, sessions, fresh>>
    /\ last' = Op("start_tracking", 0, TRUE)
    /\ UNCHANGED <<usage_data, last_app, last_time, file, clock, credited,
                   firstTick, lastCredit, proc, savepc, durable, setbacks, call>>

\* line 114 of stop_tracking
StopBegin ==
    /\ proc = "up" /\ call.pc = "idle"
    /\ running' = FALSE
    /\ call' = [IdleCall(NoSummary) EXCEPT !.pc = "joining"]
    /\ UNCHANGED <<usage_data, last_app, last_time, file, clock, last, credited,
                   firstTick, lastCredit, sessions, proc, savepc, durable,
                   setbacks, threads, fresh>>

\* a join that returns at once
JoinDone_NoWait == TRUE

\* lines 115-116: there is no thread to join, or track_thread.join() returns
\* because track_usage has returned
JoinDone ==
    IF threads = <<>> THEN TRUE ELSE threads[Len(threads)].pc = "done"

\* lines 115-117 of stop_tracking: the join, then save_data, then the return
StopJoin ==
    /\ proc = "up" /\ call.pc = "joining"
    /\ JoinDone
    /\ SaveEffect(usage_data, "ok")
    /\ call' = IdleCall(NoSummary)
    /\ last' = Op("stop_tracking", 0, TRUE)
    /\ UNCHANGED <<last_app, last_time, running, clock, firstTick, sessions,
                   proc, savepc, durable, setbacks, threads, fresh>>

\* save_data, lines 121-123 up to the read of the old value by the +=; with
\* no application to flush, line 124 at once
SaveFlushRead ==
    /\ proc = "up" /\ call.pc = "idle"
    /\ IF Truthy(last_app)
       THEN /\ usage_data' = Credit(usage_data, DateOf(clock), last_app, 0)
            /\ call' = [IdleCall(NoSummary) EXCEPT
                           !.pc = "flush", !.date = DateOf(clock),
                           !.key = last_app,
                           !.old = SecsOf(usage_data, DateOf(clock), last_app)]
            /\ UNCHANGED file
       ELSE /\ file' = Truncated
            /\ call' = [IdleCall(NoSummary) EXCEPT !.pc = "opened"]
            /\ UNCHANGED usage_data
    /\ UNCHANGED <<last_app, last_time, running, clock, last, credited,
                   firstTick, lastCredit, sessions, proc, savepc, durable,
                   setbacks, threads, fresh>>

\* the rest of line 123, time.time() - self.last_time and the store, then
\* the open of line 124
SaveFlushWrite ==
    /\ proc = "up" /\ call.pc = "flush"
    /\ LET ud == Store(usage_data, call.date, call.key,
                       call.old + (clock - last_time))
       IN /\ InRange(ud, credited + (clock - last_time))
          /\ usage_data' = ud
    /\ credited' = credited + (clock - last_time)
    /\ lastCredit' = clock
    /\ file' = Truncated
    /\ call' = [IdleCall(NoSummary) EXCEPT !.pc = "opened"]
    /\ UNCHANGED <<last_app, last_time, running, clock, last, firstTick,
                   sessions, proc, savepc, durable, setbacks, threads, fresh>>

\* lines 125-127: current_date_obj, and the comprehension starts to iterate
\* self.usage_data.items(); over an empty table it is over at once
SaveIterStart ==
    /\ proc = "up" /\ call.pc = "opened"
    /\ IF DOMAIN usage_data = {}
       THEN /\ file' = [kind |-> "object", items |-> <<>>]
            /\ call' = IdleCall(NoSummary)
            /\ last' = Op("save_data", 0, TRUE)
       ELSE /\ call' = [IdleCall(NoSummary) EXCEPT
                           !.pc = "iterating", !.now = clock,
                           !.iter = DOMAIN usage_data]
            /\ UNCHANGED <<file, last>>
    /\ UNCHANGED <<usage_data, last_app, last_time, running, clock, credited,
                   firstTick, lastCredit, sessions, proc, savepc, durable,
                   setbacks, threads, fresh>>

\* lines 127-133: the iteration goes on to its end and the dump is written;
\* if a date was added to the table meanwhile the iterator raises
\* RuntimeError, which the except clause turns into False
SaveFinish ==
    /\ proc = "up" /\ call.pc = "iterating"
    /\ IF DOMAIN usage_data # call.iter
       THEN /\ last' = Op("save_data", 0, FALSE)
            /\ UNCHANGED file
       ELSE /\ last' = Op("save_data", 0, TRUE)
            /\ file' = [kind |-> "object",
                        items |-> Dump(Filtered(usage_data, call.now))]
    /\ call' = IdleCall(NoSummary)
    /\ UNCHANGED <<usage_data, last_app, last_time, running, clock, credited,
                   firstTick, lastCredit, sessions, proc, savepc, durable,
                   setbacks, threads, fresh>>

\* get_summary(d), lines 143-148: apps is the day's own dictionary when the
\* day is stored, and total_time is summed from it; for a day that is not
\* stored apps is a fresh {} and the call is over
SumRead(d) ==
    /\ proc = "up" /\ call.pc = "idle"
    /\ IF d \in DOMAIN usage_data
       THEN /\ call' = [IdleCall(NoSummary) EXCEPT
                           !.pc = "summed", !.date = d,
                           !.total = TotalTime(usage_data[d])]
            /\ UNCHANGED last
       ELSE /\ call' = IdleCall(get_summary(usage_data, d))
            /\ last' = Op("get_summary", d, TRUE)
    /\ UNCHANGED <<usage_data, last_app, last_time, running, file, clock,
                   credited, firstTick, lastCredit, sessions, proc, savepc,
                   durable, setbacks, threads, fresh>>

\* lines 149-150: the same dictionary is sorted, and the pair is returned
SortRead ==
    /\ proc = "up" /\ call.pc = "summed"
    /\ call' = IdleCall([sorted_apps |-> SortedApps(AppsOf(usage_data, call.date)),
                         total_time  |-> call.total])
    /\ last' = Op("get_summary", call.date, TRUE)
    /\ UNCHANGED <<usage_data, last_app, last_time, running, file, clock,
                   credited, firstTick, lastCredit, sessions, proc, savepc,
                   durable, setbacks, threads, fresh>>

\* start and stop with the thread they start and join
NextThreads ==
    \/ StartTracking
    \/ StopBegin
    \/ StopJoin
    \/ \E i \in 1 .. Len(threads) : LoopTest(i)
    \/ \E i \in 1 .. Len(threads) : \E app \in FocusResults : TickRead(i, app)
    \/ \E i \in 1 .. Len(threads) : TickWrite(i)
    \/ \E step \in ClockSteps : Advance(step)

SpecThreads == Init /\ [][NextThreads]_vars

\* a running sampler next to a caller that saves
NextRace ==
    \/ StartTracking
    \/ \E i \in 1 .. Len(threads) : LoopTest(i)
    \/ \E i \in 1 .. Len(threads) : \E app \in FocusResults : TickRead(i, app)
    \/ \E i \in 1 .. Len(threads) : TickWrite(i)
    \/ SaveFlushRead
    \/ SaveFlushWrite
    \/ SaveIterStart
    \/ SaveFinish
    \/ \E step \in ClockSteps : Advance(step)

SpecRace == Init /\ [][NextRace]_vars

\* a running sampler next to a caller that reads summaries
NextRead ==
    \/ StartTracking
    \/ \E i \in 1 .. Len(threads) : LoopTest(i)
    \/ \E i \in 1 .. Len(threads) : \E app \in FocusResults : TickRead(i, app)
    \/ \E i \in 1 .. Len(threads) : TickWrite(i)
    \/ \E d \in Days : SumRead(d)
    \/ SortRead
    \/ \E step \in ClockSteps : Advance(step)

SpecRead == Init /\ [][NextRead]_vars

\* ================================================================ the claims
\* total seconds stored for application a over all days of table ud
RECURSIVE TotalOver(_, _, _)
TotalOver(ud, a, days) ==
    IF days = {} THEN 0
    ELSE LET d == CHOOSE x \in days : TRUE
         IN SecsOf(ud, d, a) + TotalOver(ud, a, days \ {d})

TotalOf(ud, a) == TotalOver(ud, a, DOMAIN ud)

AnyTick == \E app \in FocusResults : Tick(app)

\* C1: under a non-decreasing clock, while the first session runs, the seconds
\* credited so far (by ticks and by the close-out flushes of save_data) equal
\* the wall-clock time from the first tick to the last tick or flush.
C1_NoDoubleCounting ==
    (running /\ last_app # None /\ sessions <= 1)
        => credited = lastCredit - firstTick

\* C2: a tick credits the time since the previous tick to last_app and to no
\* other application (so not to the application it has just observed, unless
\* that is last_app again), and the first tick credits nothing.
C2_Retroactive ==
    [][AnyTick =>
        /\ last_app = None => usage_data' = usage_data
        /\ \A a \in FocusResults :
              TotalOf(usage_data', a) - TotalOf(usage_data, a)
                 = IF a = last_app THEN clock - last_time ELSE 0]_vars

\* the store after the ticks A at 0, A at 5, B at 10: A holds 10, B nothing
C2_Witness ==
    /\ last.op = "tick" /\ last_app = "B" /\ last_time = 2 * TickStep
    /\ credited = 2 * TickStep
    /\ TotalOf(usage_data, "A") = 2 * TickStep
    /\ TotalOf(usage_data, "B") = 0

\* C3: once delete_date(d) has returned True, d is not among the dates of the
\* store and get_summary(d) is the empty list with total 1.
C3_DeleteRemoves ==
    (last.op = "delete_date" /\ last.ok) =>
        /\ last.date \notin DOMAIN usage_data
        /\ get_summary(usage_data, last.date)
             = [sorted_apps |-> <<>>, total_time |-> 1]

\* C4: while a save is under way, after a kill in the middle of one, and after
\* a save that failed, the file still is what it was when that save began,
\* if that was a saved table, and load_data reads it.
C4_CrashSafe ==
    (/\ durable.kind = "object"
     /\ \/ savepc = "opened"
        \/ last.op = "kill" /\ ~last.ok
        \/ last.op = "save_data" /\ ~last.ok)
    => (file = durable /\ load_data(file, clock).exc = "none")

\* C5: no stored seconds value is negative (the store starts empty, so a
\* negative value can only come from crediting a negative elapsed time).
C5_NeverNegative ==
    \A d \in DOMAIN usage_data : \A i \in 1 .. Len(usage_data[d]) :
        usage_data[d][i].secs >= 0

\* C6: a step that lowers the seconds of some (day, application) entry is a
\* delete_date of that day.
C6_OnlyDeleteLowers ==
    [][\A d \in Days, a \in FocusResults :
          SecsOf(usage_data', d, a) < SecsOf(usage_data, d, a)
             => last'.op = "delete_date" /\ last'.ok /\ last'.date = d]_vars

\* C7 as claimed: a tick credits the elapsed time to the day of last_time, and
\* when the interval crosses midnight the day of the tick itself gets nothing.
C7_CreditsStartDay ==
    [][(AnyTick /\ last_app # None /\ clock > last_time) =>
          /\ SecsOf(usage_data', DateOf(last_time), last_app)
               = SecsOf(usage_data, DateOf(last_time), last_app) + (clock - last_time)
          /\ DateOf(clock) # DateOf(last_time)
               => AppsOf(usage_data', DateOf(clock)) = AppsOf(usage_data, DateOf(clock))]_vars

\* C7 amended: a tick credits the whole elapsed time to the day of the tick
\* itself (the day containing now), and no other day changes.
C7_CreditsCurrentDay ==
    [][(AnyTick /\ last_app # None) =>
          /\ SecsOf(usage_data', DateOf(clock), last_app)
               = SecsOf(usage_data, DateOf(clock), last_app) + (clock - last_time)
          /\ \A d \in Days \ {DateOf(clock)} :
               AppsOf(usage_data', d) = AppsOf(usage_data, d)]_vars

\* a tick on day 1 has just credited an interval that began on day 0
C7_Witness ==
    /\ last.op = "tick" /\ last.at = clock /\ last_time = clock
    /\ DateOf(clock) = 1 /\ DateOf(firstTick) = 0
    /\ 0 \notin DOMAIN usage_data
    /\ \E a \in FocusResults : SecsOf(usage_data, 1, a) = credited /\ credited > 0

\* age of day d in whole days at the present clock
AgeDays(d) == (clock - Midnight(d)) \div DayLen

FileDates(f) ==
    {f.items[i].key.day : i \in {j \in 1 .. Len(f.items) : f.items[j].key.fmt = "date"}}

JustDone(ops) == last.op \in ops /\ last.ok /\ last.at = clock

\* C8: right after a load or a successful save, no date of the table in memory
\* and no date of the file is more than RetentionDays whole days old.
C8_Retention ==
    JustDone({"load", "save_data"}) =>
        /\ \A d \in DOMAIN usage_data : AgeDays(d) <= RetentionDays
        /\ last.op = "save_data" =>
              \A d \in FileDates(file) : AgeDays(d) <= RetentionDays

\* a file load_data should refuse as a whole
BadFile(f) ==
    \/ f.kind # "object"
    \/ \E i \in 1 .. Len(f.items) :
          f.items[i].key.fmt = "bad" \/ f.items[i].val.shape # "map"

\* C9: right after start-up from a missing, unreadable, malformed or
\* wrong-shaped file, the tracker exists and its table is empty.
C9_LoadSafe ==
    (last.op = "load" /\ BadFile(file)) =>
        (proc = "up" /\ usage_data = EmptyTable)

\* C10: right after a successful start-up every value of the table is a
\* non-negative number.
C10_DropsCorrupt ==
    (last.op = "load" /\ last.ok) =>
        \A d \in DOMAIN usage_data : \A i \in 1 .. Len(usage_data[d]) :
            usage_data[d][i].secs >= 0

\* a file that is an object of date keys and mappings
WellFormed(f) ==
    /\ f.kind = "object"
    /\ \A i \in 1 .. Len(f.items) :
          f.items[i].key.fmt = "date" /\ f.items[i].val.shape = "map"

\* every date of file f is at most RetentionDays days old at time now
InWindow(f, now) ==
    \A d \in FileDates(f) : now - Midnight(d) <= RetentionDays * DayLen

\* the date -> applications mapping a well-formed file holds
FileMap(f) ==
    [d \in FileDates(f) |->
        f.items[CHOOSE i \in 1 .. Len(f.items) : f.items[i].key.day = d].val.apps]

\* C11: a save that follows the load of a well-formed file, all of whose dates
\* are inside the retention window at the load and at the save, writes a file
\* that holds the same date -> application -> seconds mapping.
C11_RoundTrip ==
    [][(/\ save_data("ok")
        /\ last.op = "load" /\ last.ok
        /\ WellFormed(file)
        /\ InWindow(file, last.at) /\ InWindow(file, clock))
       => (file'.kind = "object" /\ FileMap(file') = FileMap(file))]_vars

\* a two-day file, one day exactly RetentionDays old, written back by a save
C11_Witness ==
    /\ last.op = "save_data" /\ last.ok /\ proc = "up"
    /\ WellFormed(file) /\ InWindow(file, clock)
    /\ Len(file.items) = 2
    /\ \E i \in 1 .. 2 :
          /\ file.items[i].key.day = -RetentionDays
          /\ file.items[i].val.apps # <<>>

\* every second stored in the table, over all days and applications
RECURSIVE StoredSeconds(_)
StoredSeconds(ud) ==
    IF DOMAIN ud = {} THEN 0
    ELSE LET d == CHOOSE x \in DOMAIN ud : TRUE
         IN SumSecs(ud[d]) + StoredSeconds(Remove(ud, d))

\* no += of the sampler or of the caller is between its read and its store
NoCreditInFlight ==
    /\ call.pc # "flush"
    /\ \A i \in 1 .. Len(threads) : threads[i].pc # "mid"

\* C12: the credits of the sampler's ticks and of the caller's close-out
\* flush are serialized: however they interleave, once none is in flight the
\* table holds every amount that was credited, none is lost.
C12_NoLostCredit ==
    NoCreditInFlight => StoredSeconds(usage_data) = credited

\* C13: a get_summary taken next to a ticking sampler returns a consistent
\* pair: total_time is the sum of the seconds of the list it returns, or 1
\* when that sum is zero.
C13_ConsistentSnapshot ==
    (call.pc = "idle" /\ last.op = "get_summary")
        => call.ret.total_time = TotalTime(call.ret.sorted_apps)

\* stop_tracking has returned and the caller has called nothing since
StopReturned == last.op = "stop_tracking" /\ call.pc = "idle"

\* the threads whose track_usage has not returned
LiveLoops == {i \in 1 .. Len(threads) : threads[i].pc # "done"}

\* C14: when stop_tracking has returned the loop is over, in-flight tick
\* included; the close-out credit of the last partial interval was made at
\* the time of the call and the table was saved with it; the loop credits
\* nothing afterwards, so the table stays what the file holds.
C14_StopQuiesces ==
    StopReturned =>
        /\ LiveLoops = {}
        /\ ~running
        /\ Truthy(last_app) => lastCredit = last.at
        /\ file = [kind |-> "object",
                   items |-> Dump(Filtered(usage_data, last.at))]

\* a stop that returned after a session whose last tick was earlier than
\* the stop, so that a partial interval was left to close out
C14_Witness ==
    /\ StopReturned
    /\ threads # <<>>
    /\ Truthy(last_app)
    /\ last_time < last.at
    /\ credited > 0
    /\ StoredSeconds(usage_data) = credited

\* C15: start_tracking while the sampler is running changes nothing, and at
\* most one sampling loop is alive at any time, whatever the sequence of
\* start_tracking and stop_tracking calls.
C15_StartIdempotent ==
    /\ [](Cardinality(LiveLoops) <= 1)
    /\ [][(StartTracking /\ running) =>
            UNCHANGED <<usage_data, last_app, last_time, running, file,
                        credited, sessions, threads>>]_vars

\* start_tracking was called after a tick of the only session there has
\* been, that is, while the sampler was running
C15_Witness ==
    /\ last.op = "start_tracking"
    /\ sessions = 1
    /\ running
    /\ last_app # None
    /\ last_time < last.at
    /\ Cardinality(LiveLoops) = 1

\* get_summary has just returned: nothing has touched the table since
SummaryReturned == last.op \in {"get_summary", "get_summary_today"}

\* what that call returned
Returned == get_summary(usage_data, last.date)

\* C16: get_summary, with a date or without, leaves the table as it is: the
\* same dates and the same values before and after the call.
C16_SummaryPure ==
    [][(get_summary_today \/ \E d \in Days : get_summary_of(d))
          => usage_data' = usage_data]_vars

\* s is in descending order of seconds
Descending(s) ==
    \A i, j \in 1 .. Len(s) : i < j => s[i].secs >= s[j].secs

\* s holds exactly the entries of apps
SameEntries(s, apps) ==
    /\ Len(s) = Len(apps)
    /\ \A i \in 1 .. Len(apps) : \E j \in 1 .. Len(s) : s[j] = apps[i]

\* the order of the application identifiers as strings
AppRank(a) == IF a = "A" THEN 1 ELSE 2

\* C17 as stated: the list get_summary returns is in descending order of
\* seconds, and entries with equal seconds are in ascending order of their
\* application identifier.
C17_TiesByIdentifier ==
    SummaryReturned =>
        /\ Descending(Returned.sorted_apps)
        /\ \A i, j \in 1 .. Len(Returned.sorted_apps) :
              (i < j /\ Returned.sorted_apps[i].secs = Returned.sorted_apps[j].secs)
                  => AppRank(Returned.sorted_apps[i].app)
                         < AppRank(Returned.sorted_apps[j].app)

\* C17 amended: the list get_summary returns holds the day's entries in
\* descending order of seconds, and entries with equal seconds are in the
\* order in which the day's table holds them, the application credited or
\* loaded first coming first.
C17_TiesByInsertion ==
    SummaryReturned =>
        /\ Descending(Returned.sorted_apps)
        /\ SameEntries(Returned.sorted_apps, AppsOf(usage_data, last.date))
        /\ \A i, j \in 1 .. Len(Returned.sorted_apps) :
              (i < j /\ Returned.sorted_apps[i].secs = Returned.sorted_apps[j].secs)
                  => IndexOf(AppsOf(usage_data, last.date), Returned.sorted_apps[i].app)
                         < IndexOf(AppsOf(usage_data, last.date), Returned.sorted_apps[j].app)

\* a summary of a day on which B was credited before A, both the same
\* positive amount
C17_Witness ==
    /\ last.op = "get_summary"
    /\ Len(AppsOf(usage_data, last.date)) = 2
    /\ AppsOf(usage_data, last.date)[1].app = "B"
    /\ AppsOf(usage_data, last.date)[2].app = "A"
    /\ AppsOf(usage_data, last.date)[1].secs = AppsOf(usage_data, last.date)[2].secs
    /\ AppsOf(usage_data, last.date)[1].secs > 0

\* C18: delete_date(d) returns True exactly when d was in the table at the
\* call; when d is absent it returns False and changes neither the table
\* nor the file.
C18_DeleteAbsent ==
    [][\A d \in Days :
          delete_date(d, "ok") =>
              /\ last'.ok = (d \in DOMAIN usage_data)
              /\ d \notin DOMAIN usage_data
                    => (usage_data' = usage_data /\ file' = file)]_vars

\* delete_date of an absent date has just returned False, with a table and a
\* saved file that a save at this time would have changed
C18_Witness ==
    /\ last.op = "delete_date" /\ ~last.ok /\ last.at = clock
    /\ last.date \notin DOMAIN usage_data
    /\ usage_data # EmptyTable
    /\ file.kind = "object"
    /\ Truthy(last_app) /\ last_time < clock

\* C19: the total_time get_summary returns is the sum of the seconds of the
\* entries it returns, except that it is 1 when that sum is zero; the list is
\* then empty or all zero.
C19_TotalFloor ==
    SummaryReturned =>
        /\ Returned.total_time =
              (IF SumSecs(Returned.sorted_apps) = 0 THEN 1
               ELSE SumSecs(Returned.sorted_apps))
        /\ SumSecs(Returned.sorted_apps) = 0 =>
              \A i \in 1 .. Len(Returned.sorted_apps) :
                  Returned.sorted_apps[i].secs = 0

\* a summary of a day without entries, asked of a table that holds seconds
\* for another day
C19_Witness ==
    /\ last.op = "get_summary"
    /\ AppsOf(usage_data, last.date) = <<>>
    /\ Returned.total_time = 1
    /\ StoredSeconds(usage_data) > 0

\* C20: a save_data that runs next to a tick that adds a date or an
\* application to the table still succeeds: it never returns False with the
\* file left empty.
C20_SaveCompletes ==
    ~(last.op = "save_data" /\ ~last.ok /\ call.pc = "idle" /\ file = Truncated)

\* C21: the first tick of a session credits nothing for the time before the
\* start_tracking that began the session: what it adds to the table is at
\* most the time from that start to the tick, so after stop_tracking and a
\* later start_tracking the time spent stopped goes to no application.
C21_StoppedTimeUncredited ==
    [][\A i \in 1 .. Len(threads) :
          (TickWrite(i) /\ fresh.pending)
              => StoredSeconds(usage_data') - StoredSeconds(usage_data)
                     <= threads[i].now - fresh.at]_vars

====
